---- MODULE Spec2Model ----
(***************************************************************************)
(* A model of falco's `crud` command (src/src/falco/commands/model_crud.py). *)
(*                                                                         *)
(* Text is modelled as a sequence of one-character strings, so that        *)
(* str.find, slicing, str.replace and str.startswith act on characters as  *)
(* they do in Python.  A template placeholder is one element of such a     *)
(* sequence (written "$name"); rendering replaces it by the characters of  *)
(* the context's value.                                                    *)
(***************************************************************************)
EXTENDS Integers, Sequences, FiniteSets, TLC

VARIABLES
    pc,         \* position of the run (or of the function call under test)
    call,       \* arguments of the function under test (function-level specifications)
    ret,        \* its return value
    argv,       \* the command's options (ModelCRUD's fields)
    world,      \* what the command reads: the app's models, the blueprints, the files before the run
    fs,         \* destination files: path -> content, or Absent
    lv,         \* local variables of __call__ and of the two generators
    exit_code,  \* <<>> while running, <<0>> or <<1>> once the run has ended
    stdout,     \* the message the run ended with ("" while running)
    formatted   \* the files the formatters were run on

vars == <<pc, call, ret, argv, world, fs, lv, exit_code, stdout, formatted>>

progvars == <<argv, world, fs, lv, exit_code, stdout, formatted>>

----------------------------------------------------------------------------
(* Bounds of the model.                                                    *)

\* A text handed to extract_content_from is made of at most this many pieces.
MaxPieces == 4

\* A rendered HTML text handed to patch_paginations_variables is made of at
\* most this many pieces.
MaxPatchPieces == 3

----------------------------------------------------------------------------
(* Python's str operations, on sequences of characters.                    *)

\* Python's None: a value that is no text
None == <<"None">>

Absent == "Absent"

Min(a, b) == IF a < b THEN a ELSE b

Max(a, b) == IF a > b THEN a ELSE b

\* s[i:i+len(sub)] == sub, i counted from 0
MatchAt(s, sub, i) ==
    /\ i >= 0
    /\ i + Len(sub) <= Len(s)
    /\ SubSeq(s, i + 1, i + Len(sub)) = sub

\* s.find(sub, from): the lowest index >= from (from 0) where sub occurs, or -1
FindFrom(s, sub, from) ==
    LET hits == {i \in from..(Len(s) - Len(sub)) : MatchAt(s, sub, i)}
    IN  IF hits = {} THEN -1
        ELSE CHOOSE i \in hits : \A j \in hits : i <= j

\* s.find(sub)
find(s, sub) == FindFrom(s, sub, 0)

\* sub in s
Contains(s, sub) == find(s, sub) # -1

\* s[a:b], with Python's treatment of negative and out-of-range indices
Slice(s, a, b) ==
    LET n  == Len(s)
        lo == IF a < 0 THEN Max(a + n, 0) ELSE Min(a, n)
        hi == IF b < 0 THEN Max(b + n, 0) ELSE Min(b, n)
    IN  IF lo < hi THEN SubSeq(s, lo + 1, hi) ELSE <<>>

\* s.startswith(prefix)
startswith(s, prefix) == MatchAt(s, prefix, 0)

RECURSIVE ReplaceFrom(_, _, _, _)
\* s[from:].replace(old, new): leftmost non-overlapping occurrences (old is never empty here)
ReplaceFrom(s, old, new, from) ==
    LET i == FindFrom(s, old, from)
    IN  IF i = -1 THEN Slice(s, from, Len(s))
        ELSE Slice(s, from, i) \o new \o ReplaceFrom(s, old, new, i + Len(old))

\* s.replace(old, new)
replace(s, old, new) == ReplaceFrom(s, old, new, 0)

RECURSIVE Flatten(_)
\* "".join(parts)
Flatten(parts) ==
    IF parts = <<>> THEN <<>> ELSE Head(parts) \o Flatten(Tail(parts))

\* all sequences over S of length at most n
SeqsUpTo(S, n) == UNION {[1..k -> S] : k \in 0..n}

----------------------------------------------------------------------------
(* The section markers, and extract_content_from.                          *)

IMPORT_START_COMMENT ==
    <<"#", " ", "I", "M", "P", "O", "R", "T", "S", ":", "S", "T", "A", "R", "T">>

IMPORT_END_COMMENT ==
    <<"#", " ", "I", "M", "P", "O", "R", "T", "S", ":", "E", "N", "D">>

CODE_START_COMMENT ==
    <<"#", " ", "C", "O", "D", "E", ":", "S", "T", "A", "R", "T">>

CODE_END_COMMENT ==
    <<"#", " ", "C", "O", "D", "E", ":", "E", "N", "D">>

\* extract_content_from with the start marker's own length not skipped
extract_content_from_keeps_marker(text, start_comment, end_comment) ==
    Slice(text, find(text, start_comment), find(text, end_comment))

extract_content_from(text, start_comment, end_comment) ==
    LET start_index == find(text, start_comment) + Len(start_comment)
        end_index   == find(text, end_comment)
    IN  Slice(text, start_index, end_index)

----------------------------------------------------------------------------
(* The state of the command before a function-level specification runs:    *)
(* nothing of the command has happened.                                    *)

Idle ==
    /\ argv = None
    /\ world = None
    /\ fs = None
    /\ lv = None
    /\ exit_code = <<>>
    /\ stdout = ""
    /\ formatted = {}

----------------------------------------------------------------------------
(* SpecExtract: extract_content_from applied to blueprint texts.           *)

\* The pieces a blueprint text is built from: the four markers and filler.
ExtractPieces ==
    { IMPORT_START_COMMENT, IMPORT_END_COMMENT,
      CODE_START_COMMENT, CODE_END_COMMENT,
      <<"x">>, <<"\n">> }

ExtractTexts == {Flatten(p) : p \in SeqsUpTo(ExtractPieces, MaxPieces)}

\* The two marker pairs generate_python_code extracts with.
MarkerPairs ==
    { <<IMPORT_START_COMMENT, IMPORT_END_COMMENT>>,
      <<CODE_START_COMMENT, CODE_END_COMMENT>> }

InitExtract ==
    /\ pc = "call"
    /\ \E t \in ExtractTexts, m \in MarkerPairs :
          call = [text |-> t, start_comment |-> m[1], end_comment |-> m[2]]
    /\ ret = None
    /\ Idle

ExtractCall ==
    /\ pc = "call"
    /\ ret' = extract_content_from(call.text, call.start_comment, call.end_comment)
    /\ pc' = "ret"
    /\ UNCHANGED <<call, progvars>>

NextExtract == ExtractCall

SpecExtract == InitExtract /\ [][NextExtract]_vars

----------------------------------------------------------------------------
(* Claims about extract_content_from (checked under SpecExtract).          *)

Returned == pc = "ret"

StartAt == find(call.text, call.start_comment)

EndAt == find(call.text, call.end_comment)

\* C1: when the start marker or the end marker (or both) does not occur in
\* the text, extract_content_from returns the empty string.
C1_MissingMarkerYieldsEmpty ==
    (Returned /\ (StartAt = -1 \/ EndAt = -1)) => ret = <<>>

\* Some occurrence of the end marker lies after the first occurrence of the
\* start marker (the first occurrence of the end marker may lie before it).
SomeEndAfterStart ==
    /\ StartAt # -1
    /\ FindFrom(call.text, call.end_comment, StartAt + Len(call.start_comment)) # -1

\* The first occurrence of the end marker lies after the first occurrence of
\* the start marker.
FirstEndAfterStart ==
    /\ StartAt # -1
    /\ EndAt >= StartAt + Len(call.start_comment)

\* The result is what stands between the first start marker and the first
\* end marker: start + result + end occurs in the text where the first start
\* marker does, and its end marker is the first one of the text.
BetweenFirstMarkers ==
    /\ MatchAt(call.text, call.start_comment \o ret \o call.end_comment, StartAt)
    /\ EndAt = StartAt + Len(call.start_comment) + Len(ret)

\* C2, as stated: whenever the start marker occurs and the end marker occurs
\* after it, the result is the text between the first start marker and the
\* first end marker.
C2_AsStated ==
    (Returned /\ SomeEndAfterStart) => BetweenFirstMarkers

\* C2, amended: whenever the start marker occurs and the FIRST occurrence of
\* the end marker lies after the first occurrence of the start marker, the
\* result is the text between the two, so start + result + end is a
\* contiguous part of the text; later occurrences of either marker are
\* ordinary text.
C2_BetweenFirstMarkers ==
    (Returned /\ FirstEndAfterStart) => BetweenFirstMarkers

\* A call whose result holds a later occurrence of the start marker, with a
\* second end marker after the first.
C2_Witness ==
    /\ Returned
    /\ FirstEndAfterStart
    /\ Contains(ret, call.start_comment)
    /\ FindFrom(call.text, call.end_comment, EndAt + 1) # -1

----------------------------------------------------------------------------
(* patch_paginations_variables.                                            *)

\* The dict of patch_paginations_variables, in its insertion order.
conversion_map(model_name_lower) ==
    <<
       <<<<"p", "r", "o", "d", "u", "c", "t", "s", ".", "h", "a", "s", "_", "p", "r", "e", "v", "i", "o", "u", "s">>,
         model_name_lower \o <<"s", ".", "h", "a", "s", "_", "p", "r", "e", "v", "i", "o", "u", "s">>>>,
       <<<<"p", "r", "o", "d", "u", "c", "t", "s", ".", "h", "a", "s", "_", "n", "e", "x", "t">>,
         model_name_lower \o <<"s", ".", "h", "a", "s", "_", "n", "e", "x", "t">>>>,
       <<<<"p", "r", "o", "d", "u", "c", "t", "s", ".", "p", "a", "g", "i", "n", "a", "t", "o", "r", ".", "p", "a", "g", "e", "_", "r", "a", "n", "g", "e">>,
         model_name_lower \o <<"s", ".", "p", "a", "g", "i", "n", "a", "t", "o", "r", ".", "p", "a", "g", "e", "_", "r", "a", "n", "g", "e">>>>,
       <<<<"p", "r", "o", "d", "u", "c", "t", "s", ".", "n", "u", "m", "b", "e", "r">>,
         model_name_lower \o <<"s", ".", "n", "u", "m", "b", "e", "r">>>>,
       <<<<"p", "r", "o", "d", "u", "c", "t", "s", ".", "n", "e", "x", "t", "_", "p", "a", "g", "e", "_", "n", "u", "m", "b", "e", "r">>,
         model_name_lower \o <<"s", ".", "n", "e", "x", "t", "_", "p", "a", "g", "e", "_", "n", "u", "m", "b", "e", "r">>>>,
       <<<<"p", "r", "o", "d", "u", "c", "t", "s", ".", "p", "r", "e", "v", "i", "o", "u", "s", "_", "p", "a", "g", "e", "_", "n", "u", "m", "b", "e", "r">>,
         model_name_lower \o <<"s", ".", "p", "r", "e", "v", "i", "o", "u", "s", "_", "p", "a", "g", "e", "_", "n", "u", "m", "b", "e", "r">>>>,
       <<<<"p", "r", "o", "d", "u", "c", "t", "s", ".", "n", "u", "m", "_", "p", "a", "g", "e", "s">>,
         model_name_lower \o <<"s", ".", "n", "u", "m", "_", "p", "a", "g", "e", "s">>>>,
       <<<<"p", "r", "o", "d", "u", "c", "t", "s", ".", "p", "a", "g", "i", "n", "a", "t", "o", "r", ".", "n", "u", "m", "_", "p", "a", "g", "e", "s">>,
         model_name_lower \o <<"s", ".", "p", "a", "g", "i", "n", "a", "t", "o", "r", ".", "n", "u", "m", "_", "p", "a", "g", "e", "s">>>>,
       <<<<"f", "o", "r", " ", "p", "r", "o", "d", "u", "c", "t", " ", "i", "n", " ", "p", "r", "o", "d", "u", "c", "t", "s">>,
         <<"f", "o", "r", " ">> \o model_name_lower \o <<" ", "i", "n", " ">> \o model_name_lower \o <<"s">>>>
    >>

RECURSIVE ApplyRules(_, _)
\* for key, value in rules: content = content.replace(key, value)
ApplyRules(content, rules) ==
    IF rules = <<>> THEN content
    ELSE ApplyRules(replace(content, Head(rules)[1], Head(rules)[2]), Tail(rules))

patch_paginations_variables(model_name_lower, content) ==
    ApplyRules(content, conversion_map(model_name_lower))

----------------------------------------------------------------------------
(* SpecPatch: patch_paginations_variables applied to rendered HTML.        *)

\* Lowercase model names.
PatchModels ==
    { <<"p", "r", "o", "d", "u", "c", "t">>,
      <<"o", "r", "d", "e", "r">>,
      <<"l", "i", "s", "t", "i", "n", "g">> }

\* The pieces a rendered HTML text is built from: table keys, parts of keys
\* and filler.
PatchPieces ==
    { <<"p", "r", "o", "d", "u", "c", "t", "s", ".", "h", "a", "s", "_", "n", "e", "x", "t">>,
      <<"f", "o", "r", " ", "p", "r", "o", "d", "u", "c", "t", " ", "i", "n", " ", "p", "r", "o", "d", "u", "c", "t", "s">>,
      <<"f", "o", "r", " ", "p", "r", "o", "d", "u", "c", "t", " ", "i", "n", " ">>,
      <<"p", "r", "o", "d", "u", "c", "t", "s">>,
      <<".", "n", "u", "m", "b", "e", "r">>,
      <<"p", "r", "o", "d", "u", "c", "t">>,
      <<" ">> }

PatchTexts == {Flatten(p) : p \in SeqsUpTo(PatchPieces, MaxPatchPieces)}

InitPatch ==
    /\ pc = "call"
    /\ \E t \in PatchTexts, m \in PatchModels :
          call = [content |-> t, model_name_lower |-> m]
    /\ ret = None
    /\ Idle

PatchCall ==
    /\ pc = "call"
    /\ ret' = patch_paginations_variables(call.model_name_lower, call.content)
    /\ pc' = "ret"
    /\ UNCHANGED <<call, progvars>>

NextPatch == PatchCall

SpecPatch == InitPatch /\ [][NextPatch]_vars

----------------------------------------------------------------------------
(* Claims about patch_paginations_variables (checked under SpecPatch).     *)

SAMPLE_MODEL == <<"p", "r", "o", "d", "u", "c", "t">>

\* The keys of the table.
PatchKeys == {conversion_map(SAMPLE_MODEL)[i][1] : i \in 1..Len(conversion_map(SAMPLE_MODEL))}

\* content[lo:hi] lies inside an occurrence of a table key
InsideKey(content, lo, hi) ==
    \E k \in PatchKeys : \E p \in 0..lo :
        MatchAt(content, k, p) /\ hi <= p + Len(k)

RECURSIVE Retarget(_, _, _)
\* content[i:] with 'product' replaced by the model name wherever it stands
\* inside an occurrence of a table key, and everything else kept
Retarget(content, m, i) ==
    IF i >= Len(content) THEN <<>>
    ELSE IF MatchAt(content, SAMPLE_MODEL, i)
            /\ InsideKey(content, i, i + Len(SAMPLE_MODEL))
         THEN m \o Retarget(content, m, i + Len(SAMPLE_MODEL))
         ELSE <<content[i + 1]>> \o Retarget(content, m, i + 1)

\* Two occurrences of table keys share characters of the content.
KeysOverlap(content) ==
    \E k1, k2 \in PatchKeys : \E p1, p2 \in 0..Len(content) :
        /\ MatchAt(content, k1, p1)
        /\ MatchAt(content, k2, p2)
        /\ p1 < p2
        /\ p2 < p1 + Len(k1)

\* C5: every occurrence of a table key is replaced by the same string with
\* 'product' replaced by the lowercase model name, and every part of the
\* text that is not an occurrence of a table key is left unchanged.
C5_EveryKeyOccurrenceRetargeted ==
    Returned => ret = Retarget(call.content, call.model_name_lower, 0)

\* The same, restricted to texts in which no two key occurrences overlap;
\* this restriction holds of the code.
PatchRetargetsDisjointKeys ==
    (Returned /\ ~KeysOverlap(call.content))
        => ret = Retarget(call.content, call.model_name_lower, 0)

----------------------------------------------------------------------------
(* Bounds of the command's model.                                          *)

\* An application has at most this many models.
MaxModels == 2

----------------------------------------------------------------------------
(* More of Python's str operations.                                        *)

UPPERCASE == <<"A", "B", "C", "D", "E", "F", "G", "H", "I", "J", "K", "L", "M", "N", "O", "P", "Q", "R", "S", "T", "U", "V", "W", "X", "Y", "Z">>

LOWERCASE == <<"a", "b", "c", "d", "e", "f", "g", "h", "i", "j", "k", "l", "m", "n", "o", "p", "q", "r", "s", "t", "u", "v", "w", "x", "y", "z">>

LowerChar(c) ==
    IF \E k \in 1..Len(UPPERCASE) : UPPERCASE[k] = c
    THEN LOWERCASE[CHOOSE k \in 1..Len(UPPERCASE) : UPPERCASE[k] = c]
    ELSE c

\* s.lower()
lower(s) == [i \in 1..Len(s) |-> LowerChar(s[i])]

RECURSIVE join(_, _)
\* sep.join(parts)
join(sep, parts) ==
    IF parts = <<>> THEN <<>>
    ELSE IF Len(parts) = 1 THEN Head(parts)
    ELSE Head(parts) \o sep \o join(sep, Tail(parts))

\* s.rfind(sub)
rfind(s, sub) ==
    LET hits == {i \in 0..(Len(s) - Len(sub)) : MatchAt(s, sub, i)}
    IN  IF hits = {} THEN -1
        ELSE CHOOSE i \in hits : \A j \in hits : i >= j

\* ".".join(name.split(".")[:-1])
WithoutLastSuffix(name) ==
    IF rfind(name, <<".">>) = -1 THEN <<>> ELSE Slice(name, 0, rfind(name, <<".">>))

----------------------------------------------------------------------------
(* get_urls, get_urls_template_string, _initial_urls_content.              *)

\* One line of get_urls: path('<route>', views.<ident>, name='<ident>'),
UrlLine(route, ident) ==
    <<"\n", " ", " ", " ", " ", " ", " ", " ", " ", "p", "a", "t", "h", "(", "'">> \o route
        \o <<"'", ",", " ", "v", "i", "e", "w", "s", ".">> \o ident
        \o <<",", " ", "n", "a", "m", "e", "=", "'">> \o ident \o <<"'", ")", ",">>

\* The five routes, with a path prefix, an identifier prefix and the name of
\* the list view.
UrlLines(path_prefix, ident_prefix, list_name) ==
    UrlLine(path_prefix, ident_prefix \o list_name)
    \o UrlLine(path_prefix \o <<"c", "r", "e", "a", "t", "e", "/">>, ident_prefix \o <<"c", "r", "e", "a", "t", "e">>)
    \o UrlLine(path_prefix \o <<"<", "i", "n", "t", ":", "p", "k", ">", "/">>, ident_prefix \o <<"d", "e", "t", "a", "i", "l">>)
    \o UrlLine(path_prefix \o <<"<", "i", "n", "t", ":", "p", "k", ">", "/", "u", "p", "d", "a", "t", "e", "/">>, ident_prefix \o <<"u", "p", "d", "a", "t", "e">>)
    \o UrlLine(path_prefix \o <<"<", "i", "n", "t", ":", "p", "k", ">", "/", "d", "e", "l", "e", "t", "e", "/">>, ident_prefix \o <<"d", "e", "l", "e", "t", "e">>)
    \o <<"\n", " ", " ", " ", " ">>

get_urls(model_name_lower, urlsafe_model_verbose_name_plural) ==
    UrlLines(urlsafe_model_verbose_name_plural \o <<"/">>,
             model_name_lower \o <<"_">>,
             <<"l", "i", "s", "t">>)

\* "{% url '<app_label>:<model_name_lower>_<action>' %}", with the pk for the views of one object
UrlTag(app_label, model_name_lower, action, with_pk) ==
    <<"{", "%", " ", "u", "r", "l", " ", "'">> \o app_label \o <<":">> \o model_name_lower \o <<"_">> \o action \o <<"'">>
        \o (IF with_pk THEN <<" ">> \o model_name_lower \o <<".", "p", "k">> ELSE <<>>)
        \o <<" ", "%", "}">>

get_urls_template_string(app_label, model_name_lower) ==
    [ list_view_url   |-> UrlTag(app_label, model_name_lower, <<"l", "i", "s", "t">>, FALSE),
      create_view_url |-> UrlTag(app_label, model_name_lower, <<"c", "r", "e", "a", "t", "e">>, FALSE),
      detail_view_url |-> UrlTag(app_label, model_name_lower, <<"d", "e", "t", "a", "i", "l">>, TRUE),
      update_view_url |-> UrlTag(app_label, model_name_lower, <<"u", "p", "d", "a", "t", "e">>, TRUE),
      delete_view_url |-> UrlTag(app_label, model_name_lower, <<"d", "e", "l", "e", "t", "e">>, TRUE) ]

_initial_urls_content(app_label, urls_content) ==
    <<"\n", "f", "r", "o", "m", " ", "d", "j", "a", "n", "g", "o", ".", "u", "r", "l", "s", " ", "i", "m", "p", "o", "r", "t", " ", "p", "a", "t", "h", "\n", "f", "r", "o", "m", " ", ".", " ", "i", "m", "p", "o", "r", "t", " ", "v", "i", "e", "w", "s", "\n", "\n", "a", "p", "p", "_", "n", "a", "m", "e", " ", "=", " ", "\"">>
        \o app_label
        \o <<"\"", "\n", "\n", "u", "r", "l", "p", "a", "t", "t", "e", "r", "n", "s", " ", "=", " ", "[", "\n">>
        \o urls_content
        \o <<"\n", "]", "\n", " ", " ", " ", " ", " ", " ", " ", " ">>

\* "\nurlpatterns +=[<urls_content>]"
UrlpatternsBlock(urls_content) ==
    <<"\n", "u", "r", "l", "p", "a", "t", "t", "e", "r", "n", "s", " ", "+", "=", "[">> \o urls_content \o <<"]">>

----------------------------------------------------------------------------
(* render_to_string: the template's placeholders replaced by the context's *)
(* values.  A placeholder is one element of the template text.             *)

Placeholders ==
    { "$model_name", "$model_name_lower", "$app_label",
      "$list_view_url", "$create_view_url", "$detail_view_url",
      "$update_view_url", "$delete_view_url" }

\* The value of a placeholder: {{ model_name }}, {{ model_name|lower }}, ...
ContextValue(context, key) ==
    CASE key = "$model_name"       -> context.model_name
      [] key = "$model_name_lower" -> lower(context.model_name)
      [] key = "$app_label"        -> context.app_label
      [] key = "$list_view_url"    -> context.list_view_url
      [] key = "$create_view_url"  -> context.create_view_url
      [] key = "$detail_view_url"  -> context.detail_view_url
      [] key = "$update_view_url"  -> context.update_view_url
      [] key = "$delete_view_url"  -> context.delete_view_url

render_to_string(template_content, context) ==
    Flatten([i \in 1..Len(template_content) |->
                IF template_content[i] \in Placeholders
                THEN ContextValue(context, template_content[i])
                ELSE <<template_content[i]>>])

----------------------------------------------------------------------------
(* The passes of the generators, one operator per statement group.         *)

LIST == <<"l", "i", "s", "t">>

INDEX == <<"i", "n", "d", "e", "x">>

\* context["model_verbose_name_plural"].lower().replace(" ", "-")
urlsafe(model_verbose_name_plural) ==
    replace(lower(model_verbose_name_plural), <<" ">>, <<"-">>)

\* content += render_to_string(template, context), in reverse
AppendRendered_prepends(content, template, context) ==
    render_to_string(template, context) \o content

\* content += render_to_string(template, context)
AppendRendered(content, template, context) ==
    content \o render_to_string(template, context)

\* the three replacements of urls_content under entry_point
entry_point_urls(urls_content, urlsafe_model_verbose_name_plural, model_name_lower) ==
    replace(
        replace(
            replace(urls_content, urlsafe_model_verbose_name_plural \o <<"/">>, <<>>),
            LIST, INDEX),
        model_name_lower \o <<"_">>, <<>>)

\* the two replacements of code_content under entry_point
entry_point_code(code_content, model_name_lower) ==
    replace(replace(code_content, model_name_lower \o <<"_">>, <<>>), LIST, INDEX)

\* the two replacements of views_content under entry_point
entry_point_html(views_content, model_name_lower) ==
    replace(replace(views_content, model_name_lower \o <<"_">>, <<>>), LIST, INDEX)

RECURSIVE Accumulate(_, _, _, _, _)
\* for context in contexts: ... of generate_python_code, from the
\* accumulators acc = [imports_content, code_content, urls_content]
Accumulate(acc, contexts, imports_template, code_template, entry_point) ==
    IF contexts = <<>> THEN acc
    ELSE
        LET context == Head(contexts)
            model_name_lower == lower(context.model_name)
            imports_content == AppendRendered(acc.imports_content, imports_template, context)
            code_content == AppendRendered(acc.code_content, code_template, context)
            urlsafe_model_verbose_name_plural == urlsafe(context.model_verbose_name_plural)
            urls_content ==
                acc.urls_content \o get_urls(model_name_lower, urlsafe_model_verbose_name_plural)
        IN  Accumulate(
                [ imports_content |-> imports_content,
                  code_content |->
                      IF entry_point
                      THEN entry_point_code(code_content, model_name_lower)
                      ELSE code_content,
                  urls_content |->
                      IF entry_point
                      THEN entry_point_urls(urls_content,
                                            urlsafe_model_verbose_name_plural,
                                            model_name_lower)
                      ELSE urls_content ],
                Tail(contexts), imports_template, code_template, entry_point)

\* imports_content, code_content and urls_content after the loop over the
\* contexts, for one blueprint text
Generated(filecontent, contexts, entry_point) ==
    Accumulate(
        [imports_content |-> <<>>, code_content |-> <<>>, urls_content |-> <<>>],
        contexts,
        extract_content_from(filecontent, IMPORT_START_COMMENT, IMPORT_END_COMMENT),
        extract_content_from(filecontent, CODE_START_COMMENT, CODE_END_COMMENT),
        entry_point)

\* imports_content + file_to_write_to.read_text() + code_content, without the file's text
PythonFileContent_drops_prior(imports_content, prior, code_content) ==
    imports_content \o code_content

\* imports_content + file_to_write_to.read_text() + code_content
PythonFileContent(imports_content, prior, code_content) ==
    imports_content \o prior \o code_content

\* the name of the template file written for a blueprint and a model
new_filename(model_name_lower, blueprint_name, entry_point) ==
    LET named == IF entry_point THEN blueprint_name
                 ELSE model_name_lower \o <<"_">> \o blueprint_name
    IN  IF startswith(named, LIST) THEN replace(named, LIST, INDEX) ELSE named

----------------------------------------------------------------------------
(* Files.  A path is <<directory, file name>>; a file that does not exist  *)
(* is not in the domain of fs.                                             *)

APP_FOLDER == "app_folder_path"

TEMPLATES_DIR == "templates_dir"

exists(files, path) == path \in DOMAIN files

read_text(files, path) == files[path]

write_text(files, path, content) ==
    [p \in DOMAIN files \cup {path} |-> IF p = path THEN content ELSE files[p]]

\* path.touch(exist_ok=True)
touch(files, path) ==
    IF exists(files, path) THEN files ELSE write_text(files, path, <<>>)

\* what read_text gives once the file has been touched
TextOrEmpty(files, path) == IF exists(files, path) THEN files[path] ELSE <<>>

----------------------------------------------------------------------------
(* What the command reads: the application's models, the blueprints and    *)
(* the files that exist before the run.                                    *)

APP_LABEL == <<"s", "h", "o", "p">>

\* django_model["name"], django_model["verbose_name_plural"]
ModelPool ==
    { [name |-> <<"P", "r", "o", "d", "u", "c", "t">>, verbose_name_plural |-> <<"P", "r", "o", "d", "u", "c", "t", "s">>],
      [name |-> <<"L", "i", "s", "t", "i", "n", "g">>, verbose_name_plural |-> <<"L", "i", "s", "t", "i", "n", "g", "s">>],
      [name |-> <<"O", "r", "d", "e", "r", "I", "t", "e", "m">>, verbose_name_plural |-> <<"O", "r", "d", "e", "r", " ", "I", "t", "e", "m", "s">>] }

\* The applications: every list of at most MaxModels different models.
ModelLists ==
    {s \in SeqsUpTo(ModelPool, MaxModels) :
        \A i, j \in 1..Len(s) : i # j => s[i] # s[j]}

\* model_path, split at the dots
ModelPaths ==
    { <<APP_LABEL>>,
      <<APP_LABEL, <<"P", "r", "o", "d", "u", "c", "t">>>>,
      <<APP_LABEL, <<"l", "i", "s", "t", "i", "n", "g">>>>,
      <<APP_LABEL, <<"G", "h", "o", "s", "t">>>>,
      <<APP_LABEL, <<>> >> }

\* The .py.bp blueprints of falco's crud directory.
PythonBlueprints ==
    << [name |-> <<"v", "i", "e", "w", "s", ".", "p", "y", ".", "b", "p">>,
        text |->
            IMPORT_START_COMMENT
            \o <<"\n", "i", "m", "p", "o", "r", "t", " ">>
        \o <<"$model_name">>
        \o <<"\n">>
            \o IMPORT_END_COMMENT \o <<"\n">> \o CODE_START_COMMENT
            \o <<"\n", "d", "e", "f", " ">>
        \o <<"$model_name_lower">>
        \o <<"_", "l", "i", "s", "t", "(", ")", ":", " ", "p", "a", "s", "s", "\n", "d", "e", "f", " ">>
        \o <<"$model_name_lower">>
        \o <<"_", "d", "e", "t", "a", "i", "l", "(", ")", ":", " ", "p", "a", "s", "s", "\n">>
            \o CODE_END_COMMENT \o <<"\n">>],
       [name |-> <<"f", "o", "r", "m", "s", ".", "p", "y", ".", "b", "p">>,
        text |->
            IMPORT_START_COMMENT
            \o <<"\n", "i", "m", "p", "o", "r", "t", " ", "f", "o", "r", "m", "s", "\n">>
            \o IMPORT_END_COMMENT \o <<"\n">> \o CODE_START_COMMENT
            \o <<"\n", "c", "l", "a", "s", "s", " ">>
        \o <<"$model_name">>
        \o <<"F", "o", "r", "m", ":", " ", "p", "a", "s", "s", "\n">>
            \o CODE_END_COMMENT \o <<"\n">>] >>

\* The .html blueprints of falco's crud directory.
DefaultHtmlBlueprints ==
    << [name |-> <<"l", "i", "s", "t", ".", "h", "t", "m", "l">>,
        text |->
            <<"{", "%", " ", "f", "o", "r", " ", "p", "r", "o", "d", "u", "c", "t", " ", "i", "n", " ", "p", "r", "o", "d", "u", "c", "t", "s", " ", "%", "}">>
        \o <<"$detail_view_url">>
        \o <<"{", "%", " ", "i", "f", " ", "p", "r", "o", "d", "u", "c", "t", "s", ".", "h", "a", "s", "_", "n", "e", "x", "t", " ", "%", "}", " ">>
        \o <<"$model_name_lower">>
        \o <<"_", "l", "i", "s", "t">>],
       [name |-> <<"d", "e", "t", "a", "i", "l", ".", "h", "t", "m", "l">>,
        text |->
            <<"$model_name">>
        \o <<" ">>
        \o <<"$update_view_url">>
        \o <<" ">>
        \o <<"$list_view_url">>] >>

\* The .html files of a user-supplied blueprints directory: none, or one.
UserHtmlBlueprints ==
    { <<>>,
      << [name |-> <<"l", "i", "s", "t", ".", "h", "t", "m", "l">>,
          text |->
            <<"$list_view_url">>
        \o <<" ", "p", "r", "o", "d", "u", "c", "t", "s", ".", "n", "u", "m", "b", "e", "r">>] >> }

USER_BLUEPRINTS_PATH == <<"b", "p">>

VIEWS_PY == <<APP_FOLDER, <<"v", "i", "e", "w", "s", ".", "p", "y">>>>

URLS_PY == <<APP_FOLDER, <<"u", "r", "l", "s", ".", "p", "y">>>>

\* The files before the run: views.py and urls.py each exist or not.
InitialFiles ==
    { [p \in D |-> IF p = VIEWS_PY THEN <<"#", " ", "o", "l", "d", " ", "v", "i", "e", "w", "s", "\n">> ELSE <<"#", " ", "o", "l", "d", " ", "u", "r", "l", "s", "\n">>]
        : D \in SUBSET {VIEWS_PY, URLS_PY} }

\* get_blueprints_ending_in(".py.bp") / (".html")
get_blueprints_ending_in(file_ext) ==
    IF file_ext = <<".", "p", "y", ".", "b", "p">> THEN PythonBlueprints ELSE DefaultHtmlBlueprints

----------------------------------------------------------------------------
(* Spec: one run of the crud command.                                      *)

InitialLocals ==
    [ name |-> None, app_label |-> None,
      django_models |-> <<>>,
      python_blueprint_context |-> <<>>, html_blueprint_context |-> <<>>,
      b |-> 1, imports_content |-> <<>>, code_content |-> <<>>, urls_content |-> <<>>,
      updated_python_files |-> {}, updated_html_files |-> {},
      html_blueprints |-> <<>>, hb |-> 1, hc |-> 1,
      file_to_write_to |-> None, views_content |-> <<>> ]

Init ==
    /\ pc = "start"
    /\ call = None
    /\ ret = None
    /\ \E model_path \in ModelPaths, custom \in BOOLEAN,
          only_python \in BOOLEAN, only_html \in BOOLEAN, entry_point \in BOOLEAN :
          argv = [ model_path |-> model_path,
                   blueprints |-> IF custom THEN USER_BLUEPRINTS_PATH ELSE <<>>,
                   only_python |-> only_python,
                   only_html |-> only_html,
                   entry_point |-> entry_point ]
    /\ \E models \in ModelLists, user \in UserHtmlBlueprints, files \in InitialFiles :
          /\ (argv.blueprints = <<>> => user = <<>>)
          /\ world = [all_django_models |-> models, user_blueprints |-> user, files |-> files]
    /\ fs = world.files
    /\ lv = InitialLocals
    /\ exit_code = <<>>
    /\ stdout = ""
    /\ formatted = {}

\* a str or None that is truthy
Truthy(x) == x # None /\ x # <<>>

\* raise cappa.Exit(message, code=1)
Exit(message) ==
    /\ pc' = "done"
    /\ exit_code' = <<1>>
    /\ stdout' = message
    /\ UNCHANGED <<call, ret, argv, world, fs, lv, formatted>>

\* name and app_label of lines 178-184
ParsedName(model_path) ==
    IF Len(model_path) = 1 THEN None ELSE model_path[Len(model_path)]

ParsedAppLabel(model_path) ==
    IF Len(model_path) = 1 THEN model_path[1]
    ELSE join(<<".">>, SubSeq(model_path, 1, Len(model_path) - 1))

\* lines 186-187
EntryPointWithoutModel ==
    /\ pc = "start"
    /\ argv.entry_point /\ ~Truthy(ParsedName(argv.model_path))
    /\ Exit("The --entry-point option requires a full model path.")

\* lines 178-185
ParseModelPath ==
    /\ pc = "start"
    /\ ~(argv.entry_point /\ ~Truthy(ParsedName(argv.model_path)))
    /\ lv' = [lv EXCEPT !.name = ParsedName(argv.model_path),
                        !.app_label = ParsedAppLabel(argv.model_path)]
    /\ pc' = "models"
    /\ UNCHANGED <<call, ret, argv, world, fs, exit_code, stdout, formatted>>

\* the indices of the models called name, whatever the case of the letters
Named(models, name) ==
    {i \in 1..Len(models) : lower(models[i].name) = lower(name)}

\* lines 203-209: no model of the application has the name
ModelNotFound ==
    /\ pc = "models"
    /\ Truthy(lv.name)
    /\ Named(world.all_django_models, lv.name) = {}
    /\ Exit("Model not found in app")

\* lines 203-211
SelectedModels(models, name) ==
    IF Truthy(name)
    THEN LET hits == Named(models, name)
         IN  <<models[CHOOSE i \in hits : \A j \in hits : i <= j]>>
    ELSE models

\* lines 216-223
PythonBlueprintContext(app_label, django_model) ==
    [ app_label |-> app_label,
      model_name |-> django_model.name,
      model_verbose_name_plural |-> django_model.verbose_name_plural ]

\* lines 224-239
HtmlBlueprintContext(app_label, django_model) ==
    LET urls == get_urls_template_string(app_label, lower(django_model.name))
    IN  [ app_label |-> app_label,
          model_name |-> django_model.name,
          model_verbose_name_plural |-> django_model.verbose_name_plural,
          list_view_url |-> urls.list_view_url,
          create_view_url |-> urls.create_view_url,
          detail_view_url |-> urls.detail_view_url,
          update_view_url |-> urls.update_view_url,
          delete_view_url |-> urls.delete_view_url ]

\* lines 189-239
BuildContexts ==
    /\ pc = "models"
    /\ Truthy(lv.name) => Named(world.all_django_models, lv.name) # {}
    /\ LET django_models == SelectedModels(world.all_django_models, lv.name)
       IN  lv' = [lv EXCEPT
                    !.django_models = django_models,
                    !.python_blueprint_context =
                        [i \in 1..Len(django_models) |->
                            PythonBlueprintContext(lv.app_label, django_models[i])],
                    !.html_blueprint_context =
                        [i \in 1..Len(django_models) |->
                            HtmlBlueprintContext(lv.app_label, django_models[i])]]
    /\ pc' = "python"
    /\ UNCHANGED <<call, ret, argv, world, fs, exit_code, stdout, formatted>>

SUCCESS == "CRUD views generated"

\* line 244, only_html set: generate_python_code is not called
SkipPython ==
    /\ pc = "python"
    /\ argv.only_html
    /\ pc' = "resolve"
    /\ UNCHANGED <<call, ret, argv, world, fs, lv, exit_code, stdout, formatted>>

\* lines 287-324: one blueprint of generate_python_code
GeneratePythonBlueprint ==
    /\ pc = "python"
    /\ ~argv.only_html
    /\ lv.b <= Len(get_blueprints_ending_in(<<".", "p", "y", ".", "b", "p">>))
    /\ LET blueprint == get_blueprints_ending_in(<<".", "p", "y", ".", "b", "p">>)[lv.b]
           file_to_write_to == <<APP_FOLDER, WithoutLastSuffix(blueprint.name)>>
           touched == touch(fs, file_to_write_to)
           gen == Generated(blueprint.text, lv.python_blueprint_context, argv.entry_point)
       IN  /\ fs' = write_text(touched, file_to_write_to,
                        PythonFileContent(gen.imports_content,
                                          read_text(touched, file_to_write_to),
                                          gen.code_content))
           /\ lv' = [lv EXCEPT
                        !.b = lv.b + 1,
                        !.file_to_write_to = file_to_write_to,
                        !.imports_content = gen.imports_content,
                        !.code_content = gen.code_content,
                        !.urls_content = gen.urls_content,
                        !.updated_python_files = @ \cup {file_to_write_to}]
    /\ UNCHANGED <<pc, call, ret, argv, world, exit_code, stdout, formatted>>

\* lines 326-334: urls.py, after the last blueprint
WriteUrls ==
    /\ pc = "python"
    /\ ~argv.only_html
    /\ lv.b > Len(get_blueprints_ending_in(<<".", "p", "y", ".", "b", "p">>))
    /\ fs' = IF exists(fs, URLS_PY)
             THEN write_text(fs, URLS_PY,
                             read_text(fs, URLS_PY) \o UrlpatternsBlock(lv.urls_content))
             ELSE write_text(touch(fs, URLS_PY), URLS_PY,
                             _initial_urls_content(lv.app_label, lv.urls_content))
    /\ lv' = [lv EXCEPT !.updated_python_files = @ \cup {URLS_PY}]
    /\ pc' = "resolve"
    /\ UNCHANGED <<call, ret, argv, world, exit_code, stdout, formatted>>

\* lines 134-137: a blueprints directory without .html files
NoHtmlBlueprints ==
    /\ pc = "resolve"
    /\ Truthy(argv.blueprints)
    /\ world.user_blueprints = <<>>
    /\ Exit("No html blueprints found")

resolve_html_blueprints(user_blueprints_path) ==
    IF Truthy(user_blueprints_path) THEN world.user_blueprints
    ELSE get_blueprints_ending_in(<<".", "h", "t", "m", "l">>)

\* line 255
ResolveHtmlBlueprints ==
    /\ pc = "resolve"
    /\ Truthy(argv.blueprints) => world.user_blueprints # <<>>
    /\ lv' = [lv EXCEPT !.html_blueprints = resolve_html_blueprints(argv.blueprints)]
    /\ pc' = "html"
    /\ UNCHANGED <<call, ret, argv, world, fs, exit_code, stdout, formatted>>

\* line 257, only_python set: generate_html_templates is not called
SkipHtml ==
    /\ pc = "html"
    /\ argv.only_python
    /\ pc' = "format"
    /\ UNCHANGED <<call, ret, argv, world, fs, lv, exit_code, stdout, formatted>>

HtmlBlueprint == lv.html_blueprints[lv.hb]

HtmlContext == lv.html_blueprint_context[lv.hc]

\* HtmlTarget without the test of only_python (line 257)
HtmlTarget_ignores_only_python ==
    /\ pc = "html"
    /\ lv.hb <= Len(lv.html_blueprints)
    /\ lv.hc <= Len(lv.html_blueprint_context)
    /\ LET file_to_write_to ==
               <<TEMPLATES_DIR,
                 new_filename(lower(HtmlContext.model_name), HtmlBlueprint.name,
                              argv.entry_point)>>
       IN  /\ fs' = touch(fs, file_to_write_to)
           /\ lv' = [lv EXCEPT !.file_to_write_to = file_to_write_to]
    /\ pc' = "html_render"
    /\ UNCHANGED <<call, ret, argv, world, exit_code, stdout, formatted>>

\* lines 361-369: the file of the next blueprint and context
HtmlTarget ==
    /\ pc = "html"
    /\ ~argv.only_python
    /\ lv.hb <= Len(lv.html_blueprints)
    /\ lv.hc <= Len(lv.html_blueprint_context)
    /\ LET file_to_write_to ==
               <<TEMPLATES_DIR,
                 new_filename(lower(HtmlContext.model_name), HtmlBlueprint.name,
                              argv.entry_point)>>
       IN  /\ fs' = touch(fs, file_to_write_to)
           /\ lv' = [lv EXCEPT !.file_to_write_to = file_to_write_to]
    /\ pc' = "html_render"
    /\ UNCHANGED <<call, ret, argv, world, exit_code, stdout, formatted>>

\* line 370
HtmlRender ==
    /\ pc = "html_render"
    /\ lv' = [lv EXCEPT !.views_content = render_to_string(HtmlBlueprint.text, HtmlContext)]
    /\ pc' = "html_patch"
    /\ UNCHANGED <<call, ret, argv, world, fs, exit_code, stdout, formatted>>

\* the patch applied after the entry-point replacements instead of before
HtmlPatch_after_collapse ==
    /\ pc = "html_patch"
    /\ lv' = [lv EXCEPT !.views_content =
                 LET collapsed == IF argv.entry_point
                                  THEN entry_point_html(lv.views_content,
                                                        lower(HtmlContext.model_name))
                                  ELSE lv.views_content
                 IN  patch_paginations_variables(lower(HtmlContext.model_name), collapsed)]
    /\ pc' = "html_write"
    /\ UNCHANGED <<call, ret, argv, world, fs, exit_code, stdout, formatted>>

\* lines 371-374
HtmlPatch ==
    /\ pc = "html_patch"
    /\ lv' = [lv EXCEPT !.views_content =
                 patch_paginations_variables(lower(HtmlContext.model_name), lv.views_content)]
    /\ pc' = IF argv.entry_point THEN "html_collapse" ELSE "html_write"
    /\ UNCHANGED <<call, ret, argv, world, fs, exit_code, stdout, formatted>>

\* lines 375-376
HtmlCollapse ==
    /\ pc = "html_collapse"
    /\ lv' = [lv EXCEPT !.views_content =
                 entry_point_html(lv.views_content, lower(HtmlContext.model_name))]
    /\ pc' = "html_write"
    /\ UNCHANGED <<call, ret, argv, world, fs, exit_code, stdout, formatted>>

\* lines 377-378, and the step to the next context
HtmlWrite ==
    /\ pc = "html_write"
    /\ fs' = write_text(fs, lv.file_to_write_to, lv.views_content)
    /\ lv' = [lv EXCEPT !.updated_html_files = @ \cup {lv.file_to_write_to},
                        !.hc = lv.hc + 1]
    /\ pc' = "html"
    /\ UNCHANGED <<call, ret, argv, world, exit_code, stdout, formatted>>

\* line 358: the contexts are exhausted, on to the next blueprint
HtmlNextBlueprint ==
    /\ pc = "html"
    /\ ~argv.only_python
    /\ lv.hb <= Len(lv.html_blueprints)
    /\ lv.hc > Len(lv.html_blueprint_context)
    /\ lv' = [lv EXCEPT !.hb = lv.hb + 1, !.hc = 1]
    /\ UNCHANGED <<pc, call, ret, argv, world, fs, exit_code, stdout, formatted>>

\* line 380: generate_html_templates returns
HtmlReturn ==
    /\ pc = "html"
    /\ ~argv.only_python
    /\ lv.hb > Len(lv.html_blueprints)
    /\ pc' = "format"
    /\ UNCHANGED <<call, ret, argv, world, fs, lv, exit_code, stdout, formatted>>

\* lines 267-271: the formatters run on every updated file.  What they do to
\* a file's text is not modelled: a file's content is its text before formatting.
RunFormatters ==
    /\ pc = "format"
    /\ formatted' = lv.updated_python_files \cup lv.updated_html_files
    /\ pc' = "report"
    /\ UNCHANGED <<call, ret, argv, world, fs, lv, exit_code, stdout>>

\* lines 273-274
ReportSuccess ==
    /\ pc = "report"
    /\ stdout' = SUCCESS
    /\ exit_code' = <<0>>
    /\ pc' = "done"
    /\ UNCHANGED <<call, ret, argv, world, fs, lv, formatted>>

Next ==
    \/ EntryPointWithoutModel
    \/ ParseModelPath
    \/ ModelNotFound
    \/ BuildContexts
    \/ SkipPython
    \/ GeneratePythonBlueprint
    \/ WriteUrls
    \/ NoHtmlBlueprints
    \/ ResolveHtmlBlueprints
    \/ SkipHtml
    \/ HtmlTarget
    \/ HtmlRender
    \/ HtmlPatch
    \/ HtmlCollapse
    \/ HtmlWrite
    \/ HtmlNextBlueprint
    \/ HtmlReturn
    \/ RunFormatters
    \/ ReportSuccess

Spec == Init /\ [][Next]_vars

----------------------------------------------------------------------------
(* Claims about the run of the command (checked under Spec).               *)

\* generate_python_code has finished at least one blueprint; the
\* accumulators are those of the blueprint before lv.b.
PythonAccumulated == ~argv.only_html /\ lv.b > 1

LastPythonBlueprint == PythonBlueprints[lv.b - 1]

imports_template ==
    extract_content_from(LastPythonBlueprint.text, IMPORT_START_COMMENT, IMPORT_END_COMMENT)

code_template ==
    extract_content_from(LastPythonBlueprint.text, CODE_START_COMMENT, CODE_END_COMMENT)

\* the template rendered against each context, concatenated in order
ConcatRenders(template, contexts) ==
    Flatten([i \in 1..Len(contexts) |-> render_to_string(template, contexts[i])])

\* C3, as stated: the accumulated imports text and the accumulated code text
\* are the concatenations, in order, of the sub-template rendered against
\* each context.
C3_AsStated ==
    PythonAccumulated =>
        /\ lv.imports_content = ConcatRenders(imports_template, lv.python_blueprint_context)
        /\ lv.code_content = ConcatRenders(code_template, lv.python_blueprint_context)

\* C3, amended: the accumulated imports text is the concatenation, in order
\* and with no separator, of the imports sub-template rendered against each
\* context; the accumulated code text is the same concatenation for the code
\* sub-template when entry_point is not set.
C3_AccumulatesInOrder ==
    PythonAccumulated =>
        /\ lv.imports_content = ConcatRenders(imports_template, lv.python_blueprint_context)
        /\ ~argv.entry_point =>
              lv.code_content = ConcatRenders(code_template, lv.python_blueprint_context)

\* Two contexts accumulated, each with its own rendering.
C3_Witness ==
    /\ PythonAccumulated
    /\ ~argv.entry_point
    /\ Len(lv.python_blueprint_context) = 2
    /\ render_to_string(code_template, lv.python_blueprint_context[1])
         # render_to_string(code_template, lv.python_blueprint_context[2])
    /\ lv.imports_content # <<>>

\* C4: with entry_point set, the URL entries have the path prefix removed,
\* the list view is called index and no identifier carries the model-name
\* prefix: the entries are those of the five routes '', 'create/',
\* '<int:pk>/', '<int:pk>/update/', '<int:pk>/delete/' with the views index,
\* create, detail, update, delete.
C4_EntryPointUrlsCollapsed ==
    (PythonAccumulated /\ argv.entry_point) =>
        lv.urls_content = UrlLines(<<>>, <<>>, INDEX)

\* C6: a run that ends with exit code 1 has created or modified no file.
C6_UsageErrorBeforeAnyWrite ==
    exit_code = <<1>> => fs = world.files

\* C7: a run with --only-python and --only-html together ends with exit
\* code 1 and not with the success message.
C7_ConflictingTogglesRejected ==
    (pc = "done" /\ argv.only_python /\ argv.only_html) =>
        (exit_code = <<1>> /\ stdout # SUCCESS)

\* The name the claim gives the template file: the blueprint's name, with
\* the model's prefix unless entry_point is set, and a leading 'list' (only
\* that one) renamed to 'index'.
ClaimedFilename(model_name_lower, blueprint_name, entry_point) ==
    LET named == IF entry_point THEN blueprint_name
                 ELSE model_name_lower \o <<"_">> \o blueprint_name
    IN  IF startswith(named, LIST)
        THEN INDEX \o Slice(named, Len(LIST), Len(named))
        ELSE named

\* C8: the destination filename is '<model_name_lower>_<blueprint filename>',
\* or the bare blueprint filename under entry_point, except that a leading
\* 'list', and nothing else in the name, is renamed to 'index'.
C8_DestinationFilename ==
    pc = "html_render" =>
        lv.file_to_write_to[2] =
            ClaimedFilename(lower(HtmlContext.model_name), HtmlBlueprint.name,
                            argv.entry_point)

Rendered == render_to_string(HtmlBlueprint.text, HtmlContext)

Patched == patch_paginations_variables(lower(HtmlContext.model_name), Rendered)

Collapsed == entry_point_html(Patched, lower(HtmlContext.model_name))

\* C9: the passes run in the order render, pagination patch, entry-point
\* collapsing (under entry_point only), write: the patch is applied to the
\* rendered text, never to collapsed text, the collapsing to the patched
\* text, and the text written is the output of the last pass.
C9_PassOrder ==
    /\ pc = "html_patch" => lv.views_content = Rendered
    /\ pc = "html_collapse" => (argv.entry_point /\ lv.views_content = Patched)
    /\ pc = "html_write" =>
          lv.views_content = (IF argv.entry_point THEN Collapsed ELSE Patched)
    /\ (pc = "html" /\ lv.hc > 1) =>
          LET context == lv.html_blueprint_context[lv.hc - 1]
              m == lower(context.model_name)
              patched == patch_paginations_variables(
                             m, render_to_string(HtmlBlueprint.text, context))
          IN  read_text(fs, lv.file_to_write_to) =
                  (IF argv.entry_point THEN entry_point_html(patched, m) ELSE patched)

\* A text about to be written that each of the three passes has changed.
C9_Witness ==
    /\ pc = "html_write"
    /\ argv.entry_point
    /\ Patched # Rendered
    /\ Collapsed # Patched
    /\ patch_paginations_variables(
           lower(HtmlContext.model_name),
           entry_point_html(Rendered, lower(HtmlContext.model_name))) # Collapsed

\* generate_python_code has returned.
PythonReturned ==
    /\ ~argv.only_html
    /\ pc \notin {"start", "models", "python"}
    /\ URLS_PY \in lv.updated_python_files

----------------------------------------------------------------------------
(* The two generation toggles (checked under Spec).                        *)

\* the files of a directory, in a file system
FilesIn(files, directory) == {p \in DOMAIN files : p[1] = directory}

\* No file of the directory has been created, modified or formatted.
Untouched(directory) ==
    /\ FilesIn(fs, directory) = FilesIn(world.files, directory)
    /\ \A p \in FilesIn(fs, directory) : fs[p] = world.files[p]
    /\ \A p \in formatted : p[1] # directory

\* The run has ended with the success message.
Succeeded == pc = "done" /\ exit_code = <<0>>

\* Both kinds have been generated: the destination of every Python
\* blueprint and urls.py, and the template of every HTML blueprint and
\* model, exist and have been formatted.
BothKindsGenerated ==
    /\ \A i \in 1..Len(PythonBlueprints) :
          LET path == <<APP_FOLDER, WithoutLastSuffix(PythonBlueprints[i].name)>>
          IN  exists(fs, path) /\ path \in formatted
    /\ exists(fs, URLS_PY) /\ URLS_PY \in formatted
    /\ fs[URLS_PY] # TextOrEmpty(world.files, URLS_PY)
    /\ \A i \in 1..Len(lv.html_blueprints) :
          \A j \in 1..Len(lv.html_blueprint_context) :
              LET path == <<TEMPLATES_DIR,
                            new_filename(lower(lv.html_blueprint_context[j].model_name),
                                         lv.html_blueprints[i].name,
                                         argv.entry_point)>>
              IN  exists(fs, path) /\ path \in formatted

\* C11: with --only-html set no Python destination file and no urls.py is
\* created, modified or formatted; with --only-python set no HTML template
\* file is created, modified or formatted; with neither set, a run that
\* succeeds has generated both kinds.
C11_TogglesRestrictTheRun ==
    /\ argv.only_html => Untouched(APP_FOLDER)
    /\ argv.only_python => Untouched(TEMPLATES_DIR)
    /\ (Succeeded /\ ~argv.only_html /\ ~argv.only_python) => BothKindsGenerated

\* A successful --only-html run that wrote and formatted templates, over an
\* existing views.py and urls.py.
C11_Witness ==
    /\ Succeeded
    /\ argv.only_html /\ ~argv.only_python
    /\ lv.updated_html_files # {}
    /\ formatted = lv.updated_html_files
    /\ exists(world.files, VIEWS_PY)
    /\ exists(world.files, URLS_PY)

====
